---- MODULE Spec2Model ----
(***************************************************************************)
(* AI Job Finder (davidayoai/AI-JobSearch): the App component's state      *)
(* machine -- search sessions with the simulated multi-source reveal, the  *)
(* two job collections, the saved list's copy in localStorage, the         *)
(* view/pagination state, the add-job dialog and the job detail view with *)
(* its insight requests and resume analysis.                               *)
(*                                                                         *)
(* A Job is represented by its identifier, the only field the handlers     *)
(* read.  Identifiers proposed by the generation service are the positive  *)
(* integers; identifiers made by crypto.randomUUID() are the negative      *)
(* integers (a fresh one per call); 0 stands for "no job" (null).          *)
(*                                                                         *)
(* Every action is one run-to-completion task of the browser's event loop: *)
(* an event handler, an effect, or the continuation of an async function   *)
(* from one await to the next.  React's state updates made inside one task *)
(* are batched, so they are the primed variables of that one action.       *)
(***************************************************************************)
EXTENDS Integers, Sequences, FiniteSets, TLC

VARIABLES
    mounted,            \* the mount effects of App have run
    jobs,               \* App: search-results collection
    savedJobs,          \* App: saved collection
    isLoading,          \* App: loading flag
    error,              \* App: stored search error (NULL or a message)
    activeView,         \* App: "search" | "saved"
    currentPage,        \* App: current page, 1-based
    scrapingStatus,     \* App: [completed, current]
    isAddJobModalOpen,  \* App
    sessions,           \* the calls of fetchJobs: locals and position of each
    latest,             \* the slot of the most recent call of fetchJobs (0: none yet)
    jobText,            \* AddJobModal: textarea contents
    parsedJob,          \* AddJobModal: parsed job or NoJob
    modalLoading,       \* AddJobModal: isLoading
    modalError,         \* AddJobModal: error (NULL or a message)
    parsePending,       \* calls of parseJobPosting awaiting the service
    nUuids,             \* calls of crypto.randomUUID() made so far
    stored,             \* localStorage: what is held under the key 'savedJobs'
    writeError,         \* the latest localStorage.setItem threw (and was logged)
    persisted,          \* the persist effect has run for the first render
    detail              \* App.selectedJob and the state of its JobDetailModal

vars == << mounted, jobs, savedJobs, isLoading, error, activeView, currentPage,
           scrapingStatus, isAddJobModalOpen, sessions, latest, jobText,
           parsedJob, modalLoading, modalError, parsePending, nUuids, stored,
           writeError, persisted, detail >>

searchVars == << jobs, isLoading, error, scrapingStatus, sessions, latest >>
modalVars == << jobText, parsedJob, modalLoading, modalError, parsePending,
                nUuids >>
storeVars == << stored, writeError, persisted >>
appVars == << mounted, savedJobs, activeView, currentPage, isAddJobModalOpen >>

----------------------------------------------------------------------------
(* Bounds of the model *)

\* longest job list the generation service returns
MaxLen == 10
\* calls of fetchJobs that can be in flight together
MaxSessions == 2
\* length of the saved list found in storage at startup (when there is one)
MaxStored == 10
\* parse requests in one run that are answered with a job or still pending
MaxParses == 1
\* service requests (insights, resume analyses) made in one opening of the job
\* detail view
MaxRequests == 2

----------------------------------------------------------------------------
(* Constants of the program *)

JOBS_PER_PAGE == 9

JOB_SOURCES == << "LinkedIn", "Indeed", "Glassdoor", "Wellfound", "Google Careers" >>

NULL == "null"

NoJob == 0

\* a record that does not match the Job schema (a required field is missing or
\* the employment kind is none of the enumeration): no identifier of a Job
BadRecord == MaxLen + MaxStored + 1

FetchErrorMessage == "Failed to fetch job listings from Gemini API."

ParseErrorMessage == "Failed to parse job posting with Gemini API."

\* textarea contents: empty, whitespace only, a posting
Texts == { "", " ", "posting" }

Trim(t) == IF t = " " THEN "" ELSE t

Min(a, b) == IF a < b THEN a ELSE b

Max(a, b) == IF a > b THEN a ELSE b

\* the job list a successful generation call returns: L jobs, ids 1..L
Listing(L) == [k \in 1..L |-> k]

\* crypto.randomUUID(): the n-th value drawn
RandomUUID(n) == 0 - n

----------------------------------------------------------------------------
(* Pure helpers *)

\* Math.floor in place of Math.ceil
MathFloor(a, b) == a \div b

\* Math.ceil(a / b), a >= 0, b > 0
MathCeil(a, b) == IF a % b = 0 THEN a \div b ELSE (a \div b) + 1

\* a slice that takes the element at position to as well
JsSliceInclusive(s, from, to) ==
    LET f == Min(from, Len(s))
        t == Min(to + 1, Len(s))
    IN  IF f >= t THEN << >> ELSE SubSeq(s, f + 1, t)

\* Array.prototype.slice(from, to), 0 <= from, 0 <= to
JsSlice(s, from, to) ==
    LET f == Min(from, Len(s))
        t == Min(to, Len(s))
    IN  IF f >= t THEN << >> ELSE SubSeq(s, f + 1, t)

Ids(s) == { s[k] : k \in 1..Len(s) }

\* prev.filter(job => job.id !== jobId)
RECURSIVE Filter(_, _)
Filter(s, id) ==
    IF s = << >> THEN << >>
    ELSE IF Head(s) = id THEN Filter(Tail(s), id)
         ELSE << Head(s) >> \o Filter(Tail(s), id)

\* savedJobs.some(job => job.id === jobId)
IsJobSaved(id) == \E k \in 1..Len(savedJobs) : savedJobs[k] = id

\* an updater that appends without looking for the identifier
HandleSaveJobAlwaysAppends(prev, job) == Append(prev, job)

\* the updater of handleSaveJob
HandleSaveJob(prev, job) ==
    IF \E k \in 1..Len(prev) : prev[k] = job THEN prev ELSE Append(prev, job)

\* an updater that drops the last job whichever identifier is asked for
HandleUnsaveJobDropsLast(prev, id) ==
    IF \E k \in 1..Len(prev) : prev[k] = id
    THEN SubSeq(prev, 1, Len(prev) - 1)
    ELSE prev

\* the updater of handleUnsaveJob
HandleUnsaveJob(prev, id) == Filter(prev, id)

\* Pagination logic of App's render
JobsToDisplay == IF activeView = "search" THEN jobs ELSE savedJobs

TotalPages == MathCeil(Len(JobsToDisplay), JOBS_PER_PAGE)

CurrentJobsOnPage ==
    JsSlice(JobsToDisplay, currentPage * JOBS_PER_PAGE - JOBS_PER_PAGE,
            currentPage * JOBS_PER_PAGE)

----------------------------------------------------------------------------
(* Search sessions: fetchJobs *)

Slots == 1..MaxSessions

IdleSession ==
    [pc |-> "idle", allFetchedJobs |-> << >>, i |-> 0, jobsAdded |-> 0,
     emitted |-> << >>]

Active(s) == sessions[s].pc \in { "fetching", "revealing", "revealingNoList" }

FreeSlots == { s \in Slots : ~Active(s) }

\* JOB_SOURCES[k] || null, k 0-based
SourceOrNull(k) == IF k + 1 <= Len(JOB_SOURCES) THEN JOB_SOURCES[k + 1] ELSE NULL

\* a start of fetchJobs that leaves the stored error
FetchJobsKeepsError(s) ==
    /\ isLoading' = TRUE
    /\ error' = error
    /\ jobs' = << >>
    /\ scrapingStatus' = [completed |-> << >>, current |-> JOB_SOURCES[1]]
    /\ sessions' = [sessions EXCEPT ![s] = [IdleSession EXCEPT !.pc = "fetching"]]
    /\ latest' = s

\* fetchJobs up to its first await (lines 70-76)
FetchJobs(s) ==
    /\ isLoading' = TRUE
    /\ error' = NULL
    /\ jobs' = << >>
    /\ scrapingStatus' = [completed |-> << >>, current |-> JOB_SOURCES[1]]
    /\ sessions' = [sessions EXCEPT ![s] = [IdleSession EXCEPT !.pc = "fetching"]]
    /\ latest' = s

\* the lowest free slot holds the new call's locals
NewSlot == CHOOSE s \in FreeSlots : \A t \in FreeSlots : s <= t


\* fetchJobs without its early return for an empty list
FindJobsResolvedNoEarlyReturn(s, fetched) ==
    /\ sessions[s].pc = "fetching"
    /\ scrapingStatus' = [scrapingStatus EXCEPT !.current = JOB_SOURCES[1]]
    /\ isLoading' = isLoading
    /\ sessions' = [sessions EXCEPT ![s] =
           [pc |-> "revealing", allFetchedJobs |-> fetched, i |-> 0,
            jobsAdded |-> 0, emitted |-> << >>]]
    /\ UNCHANGED << jobs, error, latest >>

\* findJobs resolved with a job list: fetchJobs from line 76 to its next await
\* (an empty list: lines 78-82 and the finally; otherwise lines 85-92)
FindJobsResolved(s, fetched) ==
    /\ sessions[s].pc = "fetching"
    /\ IF Len(fetched) = 0
       THEN /\ scrapingStatus' = [completed |-> JOB_SOURCES, current |-> NULL]
            /\ isLoading' = FALSE
            /\ sessions' = [sessions EXCEPT ![s].pc = "done"]
       ELSE /\ scrapingStatus' = [scrapingStatus EXCEPT !.current = JOB_SOURCES[1]]
            /\ isLoading' = isLoading
            /\ sessions' = [sessions EXCEPT ![s] =
                   [pc |-> "revealing", allFetchedJobs |-> fetched, i |-> 0,
                    jobsAdded |-> 0, emitted |-> << >>]]
    /\ UNCHANGED << jobs, error, latest >>

\* a failure handler without the finally block
FindJobsRejectedStaysLoading(s) ==
    /\ sessions[s].pc = "fetching"
    /\ error' = FetchErrorMessage
    /\ jobs' = << >>
    /\ isLoading' = isLoading
    /\ sessions' = [sessions EXCEPT ![s].pc = "failed"]
    /\ UNCHANGED << scrapingStatus, latest >>

\* a catch block that does not store the message
FindJobsRejectedNoMessage(s) ==
    /\ sessions[s].pc = "fetching"
    /\ jobs' = << >>
    /\ isLoading' = FALSE
    /\ sessions' = [sessions EXCEPT ![s].pc = "failed"]
    /\ UNCHANGED << error, scrapingStatus, latest >>

\* findJobs rejected (it rethrows every failure as one Error, part_002 58-61):
\* the catch and finally of fetchJobs (lines 104-109)
FindJobsRejected(s) ==
    /\ sessions[s].pc = "fetching"
    /\ error' = FetchErrorMessage
    /\ jobs' = << >>
    /\ isLoading' = FALSE
    /\ sessions' = [sessions EXCEPT ![s].pc = "failed"]
    /\ UNCHANGED << scrapingStatus, latest >>

\* a loop that never moves currentSource on
RevealStepKeepsCurrent(s) ==
    LET ses == sessions[s]
        all == ses.allFetchedJobs
        jobsPerSource == MathCeil(Len(all), Len(JOB_SOURCES))
        source == JOB_SOURCES[ses.i + 1]
        jobsToAdd == JsSlice(all, ses.jobsAdded, ses.jobsAdded + jobsPerSource)
        next == ses.i + 1
    IN  /\ ses.pc = "revealing"
        /\ jobs' = jobs \o jobsToAdd
        /\ scrapingStatus' = [scrapingStatus EXCEPT
               !.completed = Append(scrapingStatus.completed, source)]
        /\ isLoading' = (next < Len(JOB_SOURCES))
        /\ sessions' = [sessions EXCEPT ![s] =
               [ses EXCEPT !.pc = IF next < Len(JOB_SOURCES) THEN "revealing" ELSE "done",
                           !.i = next,
                           !.jobsAdded = ses.jobsAdded + jobsPerSource,
                           !.emitted = Append(ses.emitted, jobsToAdd)]]
        /\ UNCHANGED << error, latest >>

\* a loop that leaves after the first batch
RevealStepBreaksEarly(s) ==
    LET ses == sessions[s]
        all == ses.allFetchedJobs
        jobsPerSource == MathCeil(Len(all), Len(JOB_SOURCES))
        source == JOB_SOURCES[ses.i + 1]
        jobsToAdd == JsSlice(all, ses.jobsAdded, ses.jobsAdded + jobsPerSource)
    IN  /\ ses.pc = "revealing"
        /\ jobs' = jobs \o jobsToAdd
        /\ scrapingStatus' = [completed |-> Append(scrapingStatus.completed, source),
                              current |-> SourceOrNull(ses.i + 1)]
        /\ isLoading' = FALSE
        /\ sessions' = [sessions EXCEPT ![s] =
               [ses EXCEPT !.pc = "done", !.i = ses.i + 1,
                           !.jobsAdded = ses.jobsAdded + jobsPerSource,
                           !.emitted = Append(ses.emitted, jobsToAdd)]]
        /\ UNCHANGED << error, latest >>

\* one 600 ms timer firing: the loop body after the await (lines 94-101), then
\* either the head of the next iteration (lines 88-92) or the loop's exit and
\* the finally (line 108)
RevealStep(s) ==
    LET ses == sessions[s]
        all == ses.allFetchedJobs
        jobsPerSource == MathCeil(Len(all), Len(JOB_SOURCES))
        source == JOB_SOURCES[ses.i + 1]
        jobsToAdd == JsSlice(all, ses.jobsAdded, ses.jobsAdded + jobsPerSource)
        afterBatch == [completed |-> Append(scrapingStatus.completed, source),
                       current |-> SourceOrNull(ses.i + 1)]
        next == ses.i + 1
    IN  /\ ses.pc = "revealing"
        /\ jobs' = jobs \o jobsToAdd
        /\ IF next < Len(JOB_SOURCES)
           THEN /\ scrapingStatus' = [afterBatch EXCEPT !.current = JOB_SOURCES[next + 1]]
                /\ isLoading' = isLoading
                /\ sessions' = [sessions EXCEPT ![s] =
                       [ses EXCEPT !.i = next,
                                   !.jobsAdded = ses.jobsAdded + jobsPerSource,
                                   !.emitted = Append(ses.emitted, jobsToAdd)]]
           ELSE /\ scrapingStatus' = afterBatch
                /\ isLoading' = FALSE
                /\ sessions' = [sessions EXCEPT ![s] =
                       [ses EXCEPT !.pc = "done", !.i = next,
                                   !.jobsAdded = ses.jobsAdded + jobsPerSource,
                                   !.emitted = Append(ses.emitted, jobsToAdd)]]
        /\ UNCHANGED << error, latest >>

\* the message of the TypeError thrown by allFetchedJobs.slice(...) when the
\* value is no array (line 94), stored by the catch (lines 104-106)
SliceErrorMessage == "allFetchedJobs.slice is not a function"

\* a parsed response that is an array whose last element is no Job
MalformedListing(L) == [k \in 1..L |-> IF k = L THEN BadRecord ELSE k]

\* findJobs resolved with a parsed value that is no array (findJobs returns
\* JSON.parse's value as Job[], part_002 lines 55-57): its length is undefined,
\* so fetchJobs passes the test of line 78 and enters the loop (lines 85-92)
FindJobsResolvedNoList(s) ==
    /\ sessions[s].pc = "fetching"
    /\ scrapingStatus' = [scrapingStatus EXCEPT !.current = JOB_SOURCES[1]]
    /\ sessions' = [sessions EXCEPT ![s].pc = "revealingNoList"]
    /\ UNCHANGED << jobs, error, isLoading, latest >>

\* the first timer of such a call: slice throws at line 94, then the catch and
\* the finally (lines 104-109)
RevealStepThrows(s) ==
    /\ sessions[s].pc = "revealingNoList"
    /\ error' = SliceErrorMessage
    /\ jobs' = << >>
    /\ isLoading' = FALSE
    /\ sessions' = [sessions EXCEPT ![s].pc = "failed"]
    /\ UNCHANGED << scrapingStatus, latest >>

----------------------------------------------------------------------------
(* JobDetailModal: state *)

\* enum InsightType
InsightTypes == { "summary", "skills", "cover_letter" }

InsightErrorMessage == "Failed to generate insight for the job."

AnalyzeErrorMessage == "Failed to analyze resume with Gemini API."

InvalidFileTypeMessage == "Invalid file type. Please upload a PDF or DOCX file."

FileReadErrorMessage == "Failed to read the file."

\* allowedMimeTypes of handleFileChange
AllowedMimeTypes ==
    { "application/pdf",
      "application/vnd.openxmlformats-officedocument.wordprocessingml.document" }

\* the media types of the files the user picks
FileTypes == AllowedMimeTypes \cup { "text/plain" }

NoFile == "none"

\* the argument of analyzeResume: { file } or { text }
ResumeData(kind, payload) == [kind |-> kind, payload |-> payload]

NoCall == ResumeData("none", "")

IdleInsight == [content |-> NULL, isLoading |-> FALSE, error |-> NULL]

\* selectedJob = null: no JobDetailModal is mounted.  With a job, the fields are
\* the component's state as its useState calls and its reset effect leave it
\* (lines 63-86); reading is the FileReader at work, analysisPending the
\* argument of the pending analyzeResume call, rejected the validation that
\* turned down the user's latest request ("blank", "type" or "none"), requests
\* the number of service calls made since the view was opened
ClosedDetail ==
    [job |-> NoJob,
     activeTab |-> "insights",
     insights |-> [t \in InsightTypes |-> IdleInsight],
     resumeText |-> "",
     uploadedFile |-> NoFile,
     analysisResult |-> NULL,
     isAnalyzing |-> FALSE,
     analysisError |-> NULL,
     reading |-> NoFile,
     analysisPending |-> NoCall,
     rejected |-> "none",
     requests |-> 0]

\* handleFetchInsight up to its await (line 99)
InsightRequested(ins, type) ==
    [ins EXCEPT ![type].isLoading = TRUE, ![type].error = NULL]

\* handleFetchInsight after getJobInsight resolved (line 102)
InsightResolved(ins, type, content) ==
    [ins EXCEPT ![type].content = content, ![type].isLoading = FALSE]

\* a catch block that marks every kind
InsightRejectedAllKinds(ins, type) ==
    [t \in InsightTypes |->
        [ins[t] EXCEPT !.error = InsightErrorMessage, !.isLoading = FALSE]]

\* handleFetchInsight after getJobInsight rejected (lines 103-107)
InsightRejected(ins, type) ==
    [ins EXCEPT ![type].error = InsightErrorMessage, ![type].isLoading = FALSE]

----------------------------------------------------------------------------
(* App: effects and handlers *)

\* what localStorage can hold under the key at startup.  kind is "absent" (no
\* such key), "empty" (the empty string), "invalid" (a string that is no JSON),
\* "json" (a JSON array, items being its elements) or "blocked" (the storage
\* throws on every access)
StorageValue(kind, items) == [kind |-> kind, items |-> items]

\* JSON.stringify of a job list
JSONStringify(list) == StorageValue("json", list)

\* the saved lists the application itself has written in an earlier run
StoredLists == { << >>, Listing(MaxStored) }

\* startup with a storage that works and holds nothing or an earlier run's list
StoredValues ==
    { StorageValue("absent", << >>), JSONStringify(Listing(MaxStored)) }

\* every startup: also the empty string, a string that is no JSON, a JSON array
\* whose element is no Job, and a storage that throws
AllStoredValues ==
    StoredValues \cup { JSONStringify(list) : list \in StoredLists }
        \cup { StorageValue("empty", << >>), StorageValue("invalid", << >>),
               StorageValue("blocked", << >>), JSONStringify(<< BadRecord >>) }

\* an initializer that never reads the storage
UseStateSavedJobsIgnoresStorage(v) == << >>

\* the useState initializer of savedJobs (lines 34-42): getItem, then
\* saved ? JSON.parse(saved) : [], any exception caught and answered with []
UseStateSavedJobs(v) ==
    IF v.kind = "blocked" THEN << >>
    ELSE IF v.kind \in { "absent", "empty" } THEN << >>
    ELSE IF v.kind = "invalid" THEN << >>
    ELSE v.items

\* localStorage.setItem returns normally (ok: the quota allows the write)
WriteSucceeds(ok) == ok /\ stored.kind # "blocked"

\* an effect that never writes
SavedJobsEffectSkipsWrite(list, ok) ==
    /\ stored' = stored
    /\ writeError' = FALSE

\* the persist effect (lines 61-67), run after a render with a new savedJobs
SavedJobsEffect(list, ok) ==
    /\ stored' = IF WriteSucceeds(ok) THEN JSONStringify(list) ELSE stored
    /\ writeError' = ~WriteSucceeds(ok)

\* a catch block that puts the previous list back
CatchWriteErrorRestores(prev, next, wrote) == IF wrote THEN next ELSE prev

\* the saved collection once the persist effect has run: its catch block only
\* logs (line 65), the state set by the handler stays
CatchWriteError(prev, next, wrote) == next

InitWith(values) ==
    /\ stored \in values
    /\ savedJobs = UseStateSavedJobs(stored)
    /\ writeError = FALSE
    /\ persisted = FALSE
    /\ mounted = FALSE
    /\ jobs = << >>
    /\ isLoading = TRUE
    /\ error = NULL
    /\ activeView = "search"
    /\ currentPage = 1
    /\ scrapingStatus = [completed |-> << >>, current |-> NULL]
    /\ isAddJobModalOpen = FALSE
    /\ sessions = [s \in Slots |-> IdleSession]
    /\ latest = 0
    /\ jobText = ""
    /\ parsedJob = NoJob
    /\ modalLoading = FALSE
    /\ modalError = NULL
    /\ parsePending = 0
    /\ nUuids = 0
    /\ detail = ClosedDetail

Init == InitWith(StoredValues)

\* the persist effect's run after the first render (lines 61-67)
StartupPersistWith(ok) ==
    /\ ~persisted
    /\ persisted' = TRUE
    /\ SavedJobsEffect(savedJobs, ok)
    /\ UNCHANGED << detail, mounted, savedJobs, activeView, currentPage,
                    isAddJobModalOpen >>
    /\ UNCHANGED searchVars
    /\ UNCHANGED modalVars

StartupPersist == StartupPersistWith(TRUE)

\* useEffect(() => fetchJobs(filters), []) (lines 112-115)
Mount ==
    /\ persisted
    /\ ~mounted
    /\ mounted' = TRUE
    /\ FetchJobs(NewSlot)
    /\ UNCHANGED << detail, stored, writeError, persisted, savedJobs, activeView,
                    currentPage, isAddJobModalOpen >>
    /\ UNCHANGED modalVars

\* a submit button that stays enabled while loading
SubmitEnabledWhileLoading == activeView = "search"

\* SearchBar: the form is rendered in the search view only (App line 205) and
\* its submit button is disabled while isLoading (SearchBar line 104)
SubmitEnabled == activeView = "search" /\ ~isLoading

\* a handleSearch that leaves the current page
HandleSearchBodyKeepsPage ==
    /\ activeView' = "search"
    /\ currentPage' = currentPage
    /\ FetchJobs(NewSlot)
    /\ UNCHANGED << detail, stored, writeError, persisted, mounted, savedJobs,
                    isAddJobModalOpen >>
    /\ UNCHANGED modalVars

\* handleSearch (lines 134-139)
HandleSearchBody ==
    /\ activeView' = "search"
    /\ currentPage' = 1
    /\ FetchJobs(NewSlot)
    /\ UNCHANGED << detail, stored, writeError, persisted, mounted, savedJobs,
                    isAddJobModalOpen >>
    /\ UNCHANGED modalVars

\* a search submitted through the SearchBar form
HandleSearch ==
    /\ mounted
    /\ SubmitEnabled
    /\ FreeSlots # {}
    /\ HandleSearchBody

FetchOk ==
    \E s \in Slots, L \in 0..MaxLen :
        /\ FindJobsResolved(s, Listing(L))
        /\ UNCHANGED << detail, stored, writeError, persisted, mounted, savedJobs,
                        activeView, currentPage,
                        isAddJobModalOpen >>
        /\ UNCHANGED modalVars

\* a catch block that also empties the saved list
FetchFailClearsSaved ==
    \E s \in Slots :
        /\ FindJobsRejected(s)
        /\ savedJobs' = << >>
        /\ UNCHANGED << detail, stored, writeError, persisted, mounted, activeView,
                        currentPage, isAddJobModalOpen >>
        /\ UNCHANGED modalVars

FetchFail ==
    \E s \in Slots :
        /\ FindJobsRejected(s)
        /\ UNCHANGED << detail, stored, writeError, persisted, mounted, savedJobs,
                        activeView, currentPage,
                        isAddJobModalOpen >>
        /\ UNCHANGED modalVars

Reveal ==
    \E s \in Slots :
        /\ RevealStep(s)
        /\ UNCHANGED << detail, stored, writeError, persisted, mounted, savedJobs,
                        activeView, currentPage,
                        isAddJobModalOpen >>
        /\ UNCHANGED modalVars

\* handleViewChange (lines 154-157), from the two NavButtons
HandleViewChange ==
    \E view \in { "search", "saved" } :
        /\ mounted
        /\ activeView' = view
        /\ currentPage' = 1
        /\ UNCHANGED << detail, stored, writeError, persisted, mounted, savedJobs,
                    isAddJobModalOpen >>
        /\ UNCHANGED searchVars
        /\ UNCHANGED modalVars

\* Pagination is rendered in the search view, and in the saved view when the
\* saved collection is not empty (App lines 233-237, 244-267)
PaginationRendered ==
    /\ activeView = "saved" => Len(savedJobs) > 0
    /\ TotalPages > 1

\* the pages Pagination's buttons can request (part_000 lines 15-56)
PageRequests ==
    (IF currentPage > 1 THEN { currentPage - 1 } ELSE {})
    \cup (IF currentPage < TotalPages THEN { currentPage + 1 } ELSE {})
    \cup 1..TotalPages

\* handlePageChange (lines 166-169)
HandlePageChange ==
    \E page \in PageRequests :
        /\ mounted
        /\ PaginationRendered
        /\ currentPage' = page
        /\ UNCHANGED << detail, stored, writeError, persisted, mounted, savedJobs,
                        activeView, isAddJobModalOpen >>
        /\ UNCHANGED searchVars
        /\ UNCHANGED modalVars

\* the JobCards on screen (App lines 221-232, 244-262)
CardsRendered == activeView = "saved" => Len(savedJobs) > 0

\* the jobs whose bookmark the user clicks: the first and the last job of the
\* stored list, and the jobs added by text
Bookmarkable == { 1, MaxStored } \cup { RandomUUID(n) : n \in 1..MaxParses }

\* JobCard.handleSaveToggle (part_001 lines 195-202) on a visible card, and the
\* persist effect that follows the render
ToggleSaveWith(ok) ==
    \E k \in 1..Len(CurrentJobsOnPage) :
        LET job == CurrentJobsOnPage[k]
            updated == IF IsJobSaved(job)
                       THEN HandleUnsaveJob(savedJobs, job)
                       ELSE HandleSaveJob(savedJobs, job)
        IN  /\ mounted
            /\ CardsRendered
            /\ job \in Bookmarkable
            /\ savedJobs' = CatchWriteError(savedJobs, updated, WriteSucceeds(ok))
            /\ SavedJobsEffect(updated, ok)
            /\ UNCHANGED << detail, persisted, mounted, activeView, currentPage,
                            isAddJobModalOpen >>
            /\ UNCHANGED searchVars
            /\ UNCHANGED modalVars

ToggleSave == ToggleSaveWith(TRUE)

----------------------------------------------------------------------------
(* AddJobModal (always mounted, App lines 283-287) and parseJobPosting *)

ParseJsonErrorMessage ==
    "AI failed to return valid JSON. The job description might be too complex or unclear. Please try again with a different posting."

\* the parsed object returned with the identifier the service proposed
ParseJobPostingKeepsId(proposed, n) == proposed

\* parseJobPosting's result for a parsable response (part_002 lines 178-184):
\* the identifier the service proposed is overridden by the n-th random UUID
ParseJobPosting(proposed, n) == RandomUUID(n)

\* the header's add-job button (App lines 192-198)
OpenAddJobModal ==
    /\ mounted
    /\ ~isAddJobModalOpen
    /\ isAddJobModalOpen' = TRUE
    /\ UNCHANGED << detail, stored, writeError, persisted, mounted, savedJobs,
                    activeView, currentPage >>
    /\ UNCHANGED searchVars
    /\ UNCHANGED modalVars

\* the textarea's onChange; it is disabled while isLoading (lines 72-78)
SetJobText ==
    \E t \in Texts :
        /\ isAddJobModalOpen
        /\ ~modalLoading
        /\ t # jobText
        /\ jobText' = t
        /\ UNCHANGED << parsedJob, modalLoading, modalError, parsePending,
                        nUuids >>
        /\ UNCHANGED << detail, stored, writeError, persisted, mounted, savedJobs,
                        activeView, currentPage,
                        isAddJobModalOpen >>
        /\ UNCHANGED searchVars

\* the Parse button is rendered while there is no parsed job and is disabled
\* while isLoading or the text is blank (lines 108-124)
ParseEnabled ==
    /\ isAddJobModalOpen
    /\ parsedJob = NoJob
    /\ ~modalLoading
    /\ Trim(jobText) # ""

\* handleParse up to its await (lines 29-38); its blank-text branch cannot be
\* taken from the button, which is disabled for a blank text
HandleParse ==
    /\ ParseEnabled
    /\ nUuids + parsePending < MaxParses
    /\ IF Trim(jobText) = ""
       THEN /\ modalError' = "Please paste a job description first."
            /\ UNCHANGED << parsedJob, modalLoading, parsePending >>
       ELSE /\ modalLoading' = TRUE
            /\ modalError' = NULL
            /\ parsedJob' = NoJob
            /\ parsePending' = parsePending + 1
    /\ UNCHANGED << jobText, nUuids >>
    /\ UNCHANGED << detail, stored, writeError, persisted, mounted, savedJobs,
                        activeView, currentPage,
                    isAddJobModalOpen >>
    /\ UNCHANGED searchVars

\* parseJobPosting resolved: handleParse lines 39 and 43
ParseOk ==
    \E proposed \in 1..MaxLen :
        /\ parsePending > 0
        /\ parsePending' = parsePending - 1
        /\ nUuids' = nUuids + 1
        /\ parsedJob' = ParseJobPosting(proposed, nUuids + 1)
        /\ modalLoading' = FALSE
        /\ UNCHANGED << jobText, modalError >>
        /\ UNCHANGED << detail, stored, writeError, persisted, mounted, savedJobs,
                        activeView, currentPage,
                        isAddJobModalOpen >>
        /\ UNCHANGED searchVars

\* parseJobPosting rejected (part_002 lines 186-192): handleParse lines 41, 43
ParseFail ==
    \E msg \in { ParseJsonErrorMessage, ParseErrorMessage } :
        /\ parsePending > 0
        /\ parsePending' = parsePending - 1
        /\ modalError' = msg
        /\ modalLoading' = FALSE
        /\ UNCHANGED << jobText, parsedJob, nUuids >>
        /\ UNCHANGED << detail, stored, writeError, persisted, mounted, savedJobs,
                        activeView, currentPage,
                        isAddJobModalOpen >>
        /\ UNCHANGED searchVars

\* AddJobModal.handleClose (lines 20-27) with App's onClose (line 285)
ModalReset ==
    /\ jobText' = ""
    /\ parsedJob' = NoJob
    /\ modalLoading' = FALSE
    /\ modalError' = NULL
    /\ isAddJobModalOpen' = FALSE

\* the overlay, the close icon and the Cancel button
HandleClose ==
    /\ isAddJobModalOpen
    /\ ModalReset
    /\ UNCHANGED << parsePending, nUuids >>
    /\ UNCHANGED << detail, stored, writeError, persisted, mounted, savedJobs,
                    activeView, currentPage >>
    /\ UNCHANGED searchVars

\* handleJobParsedAndSaved (App lines 149-152), and the persist effect that
\* follows the render when the updater returned a new list
HandleJobParsedAndSaved(job, ok) ==
    LET updated == HandleSaveJob(savedJobs, job)
    IN  /\ savedJobs' = CatchWriteError(savedJobs, updated, WriteSucceeds(ok))
        /\ IF updated = savedJobs
           THEN UNCHANGED << stored, writeError >>
           ELSE SavedJobsEffect(updated, ok)
        /\ activeView' = "saved"
        /\ currentPage' = currentPage

\* AddJobModal.handleSave (lines 47-52), from the Save Job button
HandleSaveWith(ok) ==
    /\ isAddJobModalOpen
    /\ parsedJob # NoJob
    /\ HandleJobParsedAndSaved(parsedJob, ok)
    /\ ModalReset
    /\ UNCHANGED << parsePending, nUuids >>
    /\ UNCHANGED << detail, mounted, persisted >>
    /\ UNCHANGED searchVars

HandleSave == HandleSaveWith(TRUE)

----------------------------------------------------------------------------
(* JobDetailModal (mounted while selectedJob is set, App lines 275-281) *)

DetailOpen == detail.job # NoJob

\* handleJobSelect (App lines 141-143) from a click on a visible card; the
\* modal mounts with its initial state
HandleJobSelect ==
    \E k \in 1..Len(CurrentJobsOnPage) :
        LET job == CurrentJobsOnPage[k]
        IN  /\ mounted
            /\ CardsRendered
            /\ ~DetailOpen
            /\ ~isAddJobModalOpen
            /\ job \in Bookmarkable
            /\ detail' = [ClosedDetail EXCEPT !.job = job]
            /\ UNCHANGED appVars
            /\ UNCHANGED storeVars
            /\ UNCHANGED searchVars
            /\ UNCHANGED modalVars

\* handleCloseModal (App lines 145-147): the modal unmounts, what its pending
\* calls set later is lost
HandleCloseModal ==
    /\ DetailOpen
    /\ detail' = ClosedDetail
    /\ UNCHANGED appVars
    /\ UNCHANGED storeVars
    /\ UNCHANGED searchVars
    /\ UNCHANGED modalVars

\* handleSaveToggle (lines 90-96) from the modal's bookmark button, and the
\* persist effect that follows the render
DetailSaveToggle ==
    LET updated == IF IsJobSaved(detail.job)
                   THEN HandleUnsaveJob(savedJobs, detail.job)
                   ELSE HandleSaveJob(savedJobs, detail.job)
    IN  /\ DetailOpen
        /\ savedJobs' = CatchWriteError(savedJobs, updated, WriteSucceeds(TRUE))
        /\ SavedJobsEffect(updated, TRUE)
        /\ UNCHANGED << detail, persisted, mounted, activeView, currentPage,
                        isAddJobModalOpen >>
        /\ UNCHANGED searchVars
        /\ UNCHANGED modalVars

\* the frame of a step of the modal
DetailStep ==
    /\ DetailOpen
    /\ UNCHANGED appVars
    /\ UNCHANGED storeVars
    /\ UNCHANGED searchVars
    /\ UNCHANGED modalVars

\* the two tab buttons (lines 213-218)
SetActiveTab ==
    \E tab \in { "insights", "resume" } :
        /\ DetailStep
        /\ tab # detail.activeTab
        /\ detail' = [detail EXCEPT !.activeTab = tab]

\* handleFetchInsight (lines 98-101) from an insight button, which is disabled
\* while its kind is loading (InsightButton, line 27)
HandleFetchInsight ==
    \E type \in InsightTypes :
        /\ DetailStep
        /\ detail.activeTab = "insights"
        /\ ~detail.insights[type].isLoading
        /\ detail.requests < MaxRequests
        /\ detail' = [detail EXCEPT
               !.insights = InsightRequested(detail.insights, type),
               !.requests = detail.requests + 1]

\* getJobInsight resolved
InsightOk ==
    \E type \in InsightTypes :
        /\ DetailStep
        /\ detail.insights[type].isLoading
        /\ detail' = [detail EXCEPT
               !.insights = InsightResolved(detail.insights, type, "insight")]

\* getJobInsight rejected
InsightFail ==
    \E type \in InsightTypes :
        /\ DetailStep
        /\ detail.insights[type].isLoading
        /\ detail' = [detail EXCEPT
               !.insights = InsightRejected(detail.insights, type)]

\* the textarea's onChange (line 271), shown while no file is uploaded
SetResumeText ==
    \E t \in Texts :
        /\ DetailStep
        /\ detail.activeTab = "resume"
        /\ detail.uploadedFile = NoFile
        /\ t # detail.resumeText
        /\ detail' = [detail EXCEPT !.resumeText = t, !.rejected = "none"]

\* handleFileChange (lines 130-159) with a file of the given media type
HandleFileChange ==
    \E type \in FileTypes :
        /\ DetailStep
        /\ detail.activeTab = "resume"
        /\ detail.reading = NoFile
        /\ IF type \notin AllowedMimeTypes
           THEN detail' = [detail EXCEPT !.analysisError = InvalidFileTypeMessage,
                                         !.rejected = "type"]
           ELSE detail' = [detail EXCEPT !.analysisError = NULL,
                                         !.reading = type,
                                         !.rejected = "none"]

\* reader.onload (lines 148-153)
FileReaderOnLoad ==
    /\ DetailStep
    /\ detail.reading # NoFile
    /\ detail' = [detail EXCEPT !.uploadedFile = detail.reading,
                                 !.resumeText = "",
                                 !.reading = NoFile]

\* reader.onerror (lines 154-156)
FileReaderOnError ==
    /\ DetailStep
    /\ detail.reading # NoFile
    /\ detail' = [detail EXCEPT !.analysisError = FileReadErrorMessage,
                                 !.reading = NoFile]

\* the Remove file button (line 259)
RemoveFile ==
    /\ DetailStep
    /\ detail.activeTab = "resume"
    /\ detail.uploadedFile # NoFile
    /\ detail' = [detail EXCEPT !.uploadedFile = NoFile, !.rejected = "none"]

\* !resumeText.trim() && !uploadedFile
NoResume == Trim(detail.resumeText) = "" /\ detail.uploadedFile = NoFile

\* handleAnalyzeResume (lines 110-119) up to its await
HandleAnalyzeResumeBody ==
    IF NoResume
    THEN detail' = [detail EXCEPT !.rejected = "blank"]
    ELSE detail' = [detail EXCEPT
             !.isAnalyzing = TRUE,
             !.analysisError = NULL,
             !.analysisResult = NULL,
             !.analysisPending =
                 IF detail.uploadedFile # NoFile
                 THEN ResumeData("file", detail.uploadedFile)
                 ELSE ResumeData("text", detail.resumeText),
             !.rejected = "none",
             !.requests = detail.requests + 1]

\* the Analyze Resume button, disabled while analyzing or without a resume
\* (line 276)
AnalyzeEnabled ==
    /\ detail.activeTab = "resume"
    /\ ~detail.isAnalyzing
    /\ ~NoResume

HandleAnalyzeResume ==
    /\ DetailStep
    /\ AnalyzeEnabled
    /\ detail.requests < MaxRequests
    /\ HandleAnalyzeResumeBody

\* analyzeResume resolved (line 120 and the finally)
AnalysisOk ==
    /\ DetailStep
    /\ detail.analysisPending # NoCall
    /\ detail' = [detail EXCEPT !.analysisResult = "analysis",
                                 !.isAnalyzing = FALSE,
                                 !.analysisPending = NoCall]

\* analyzeResume rejected (lines 121-127)
AnalysisFail ==
    /\ DetailStep
    /\ detail.analysisPending # NoCall
    /\ detail' = [detail EXCEPT !.analysisError = AnalyzeErrorMessage,
                                 !.isAnalyzing = FALSE,
                                 !.analysisPending = NoCall]

----------------------------------------------------------------------------
(* Specifications *)

\* the application driven through its user interface
Next ==
    \/ StartupPersist
    \/ Mount
    \/ HandleSearch
    \/ FetchOk
    \/ FetchFail
    \/ Reveal
    \/ HandleViewChange
    \/ HandlePageChange
    \/ ToggleSave
    \/ OpenAddJobModal
    \/ SetJobText
    \/ HandleParse
    \/ ParseOk
    \/ ParseFail
    \/ HandleClose
    \/ HandleSave

Spec == Init /\ [][Next]_vars

\* each pending 600 ms timer fires
LiveSpec == Spec /\ WF_vars(Reveal)

\* handleSearch called while the submit button is disabled: the callback itself
\* has no guard (App lines 134-139)
HandleSearchDirect ==
    /\ mounted
    /\ ~SubmitEnabled
    /\ FreeSlots # {}
    /\ HandleSearchBody

\* the search part of App with fetchJobs re-entered while a call is in flight
NextReentrant ==
    \/ StartupPersist
    \/ Mount
    \/ HandleSearch
    \/ HandleSearchDirect
    \/ FetchOk
    \/ FetchFail
    \/ Reveal

SpecReentrant == Init /\ [][NextReentrant]_vars

\* the generation service answering with JSON that is no list of Jobs
FetchMalformed ==
    \E s \in Slots, L \in 1..MaxLen :
        /\ FindJobsResolved(s, MalformedListing(L))
        /\ UNCHANGED << detail, stored, writeError, persisted, mounted, savedJobs,
                        activeView, currentPage, isAddJobModalOpen >>
        /\ UNCHANGED modalVars

FetchNoList ==
    \E s \in Slots :
        /\ FindJobsResolvedNoList(s)
        /\ UNCHANGED << detail, stored, writeError, persisted, mounted, savedJobs,
                        activeView, currentPage, isAddJobModalOpen >>
        /\ UNCHANGED modalVars

RevealThrows ==
    \E s \in Slots :
        /\ RevealStepThrows(s)
        /\ UNCHANGED << detail, stored, writeError, persisted, mounted, savedJobs,
                        activeView, currentPage, isAddJobModalOpen >>
        /\ UNCHANGED modalVars

\* the search part of App with a generation service that does not keep to the
\* response schema
NextSchema ==
    \/ StartupPersist
    \/ Mount
    \/ HandleSearch
    \/ FetchOk
    \/ FetchFail
    \/ Reveal
    \/ FetchMalformed
    \/ FetchNoList
    \/ RevealThrows

SpecSchema == Init /\ [][NextSchema]_vars

\* localStorage.setItem throwing (quota exceeded) in the persist effect
StartupPersistQuota == StartupPersistWith(FALSE)

ToggleSaveQuota == ToggleSaveWith(FALSE)

HandleSaveQuota == HandleSaveWith(FALSE)

\* the saved list and its storage: every storage content at startup, writes
\* that can fail, one search (the initial load) as the source of cards
NextStore ==
    \/ StartupPersist
    \/ Mount
    \/ FetchOk
    \/ Reveal
    \/ HandleViewChange
    \/ HandlePageChange
    \/ ToggleSave
    \/ OpenAddJobModal
    \/ SetJobText
    \/ HandleParse
    \/ ParseOk
    \/ HandleSave
    \/ StartupPersistQuota
    \/ ToggleSaveQuota
    \/ HandleSaveQuota

SpecStore == InitWith(AllStoredValues) /\ [][NextStore]_vars

\* what the user can do in App while no job detail view covers it
AppStep ==
    /\ ~DetailOpen
    /\ \/ HandleSearch
       \/ HandleViewChange
       \/ OpenAddJobModal
       \/ SetJobText
       \/ HandleParse
       \/ HandleClose

\* the job detail view beside the other callers of the service: the search
\* (which fails), the add-job dialog (whose parse fails) and the saved list read
\* from storage as the source of cards
NextDetail ==
    \/ StartupPersist
    \/ Mount
    \/ FetchFail
    \/ ParseFail
    \/ AppStep
    \/ HandleJobSelect
    \/ HandleCloseModal
    \/ DetailSaveToggle
    \/ SetActiveTab
    \/ HandleFetchInsight
    \/ InsightOk
    \/ InsightFail
    \/ SetResumeText
    \/ HandleFileChange
    \/ FileReaderOnLoad
    \/ FileReaderOnError
    \/ RemoveFile
    \/ HandleAnalyzeResume
    \/ AnalysisOk
    \/ AnalysisFail

SpecDetail == Init /\ [][NextDetail]_vars

\* handleAnalyzeResume called without a resume: the button is disabled then,
\* the callback has its own test (line 111)
HandleAnalyzeResumeDirect ==
    /\ DetailStep
    /\ detail.activeTab = "resume"
    /\ ~detail.isAnalyzing
    /\ NoResume
    /\ HandleAnalyzeResumeBody

NextDetailDirect == NextDetail \/ HandleAnalyzeResumeDirect

SpecDetailDirect == Init /\ [][NextDetailDirect]_vars

----------------------------------------------------------------------------
(* Properties *)

TerminalStatus == [completed |-> JOB_SOURCES, current |-> NULL]

IsPrefix(p, s) == Len(p) <= Len(s) /\ \A k \in 1..Len(p) : p[k] = s[k]

NoneActive == \A s \in Slots : ~Active(s)

\* C1: when a search is started while an earlier one is still fetching or
\* revealing, the earlier one's batches are discarded: once no call of fetchJobs
\* is in flight and the newest one is done, the search results are exactly the
\* newest call's fetched list.
C1_NewestSearchWins ==
    (latest # 0 /\ NoneActive /\ sessions[latest].pc = "done")
        => jobs = sessions[latest].allFetchedJobs

\* C2: a step of a superseded call of fetchJobs (one that is not the newest)
\* leaves RevealStatus alone, and completedSources is always a prefix of the
\* source list.
C2_StaleSessionLeavesStatus ==
    /\ [](IsPrefix(scrapingStatus.completed, JOB_SOURCES))
    /\ [][\A s \in Slots :
            (s # latest /\ latest' = latest /\ sessions'[s] # sessions[s])
                => scrapingStatus' = scrapingStatus]_vars

\* C3: once the newest search has failed, no source is marked as current.
C3_FailedClearsCurrentSource ==
    (latest # 0 /\ sessions[latest].pc = "failed")
        => scrapingStatus.current = NULL

\* C4: a search whose generation call failed has emitted no batch, and while it
\* is the newest search the error message is stored, the search results are
\* empty and loading is off.
C4_FailedSession ==
    \A s \in Slots :
        sessions[s].pc = "failed" =>
            /\ sessions[s].emitted = << >>
            /\ s = latest =>
                  /\ error = FetchErrorMessage
                  /\ jobs = << >>
                  /\ ~isLoading

C4_Witness == latest # 0 /\ sessions[latest].pc = "failed" /\ error # NULL

\* ceil(L / N), stated without the model's MathCeil
CeilOf(L, N) == CHOOSE c \in 0..L : c * N >= L /\ (c - 1) * N < L

\* the elements of list at the 0-based positions [from, to), clipped to the list
Positions(list, from, to) ==
    LET lo == IF from < Len(list) THEN from ELSE Len(list)
        hi == IF to < Len(list) THEN to ELSE Len(list)
    IN  [k \in 1..(hi - lo) |-> list[lo + k]]

RECURSIVE Flatten(_)
Flatten(batches) ==
    IF batches = << >> THEN << >>
    ELSE Head(batches) \o Flatten(Tail(batches))

\* C5: a reveal of a non-empty fetched list of length L emits batch i =
\* fetched[i*ceil(L/5), (i+1)*ceil(L/5)) for i = 0..4; when it is done it has
\* emitted exactly 5 batches whose concatenation, and the search results, equal
\* the fetched list.
C5_BatchesPartitionFetched ==
    \A s \in Slots :
        LET ses == sessions[s]
            L == Len(ses.allFetchedJobs)
            N == Len(JOB_SOURCES)
        IN  (ses.pc \in { "revealing", "done" } /\ L > 0) =>
                /\ Len(ses.emitted) = ses.i
                /\ \A b \in 1..Len(ses.emitted) :
                       ses.emitted[b] =
                           Positions(ses.allFetchedJobs, (b - 1) * CeilOf(L, N),
                                     b * CeilOf(L, N))
                /\ ses.pc = "done" =>
                       /\ Len(ses.emitted) = N
                       /\ Flatten(ses.emitted) = ses.allFetchedJobs
                       /\ s = latest => jobs = ses.allFetchedJobs

\* a finished reveal of a list whose length is no multiple of 5 and whose last
\* batch is empty
C5_Witness ==
    /\ latest # 0
    /\ sessions[latest].pc = "done"
    /\ Len(sessions[latest].allFetchedJobs) % Len(JOB_SOURCES) # 0
    /\ Len(sessions[latest].allFetchedJobs) > Len(JOB_SOURCES)
    /\ sessions[latest].emitted[Len(JOB_SOURCES)] = << >>
    /\ jobs = sessions[latest].allFetchedJobs

\* C6: every search whose fetch succeeded reaches Done: completedSources is the
\* full source list, currentSource is none and loading is off.
C6_SuccessfulSearchCompletes ==
    \A s \in Slots :
        (sessions[s].pc \in { "revealing", "done" })
            ~> (/\ sessions[s].pc = "done"
                /\ scrapingStatus = TerminalStatus
                /\ ~isLoading)

C6_Witness ==
    /\ latest # 0
    /\ sessions[latest].pc = "done"
    /\ Len(sessions[latest].emitted) = Len(JOB_SOURCES)
    /\ scrapingStatus = TerminalStatus
    /\ ~isLoading

\* C7: a fetch that succeeds with an empty list never enters the delay loop: the
\* search is Done at once with RevealStatus terminal, no batch emitted, the
\* search results untouched (empty) and loading off.
C7_EmptyResultTerminal ==
    \A s \in Slots :
        /\ sessions[s].pc = "revealing" => sessions[s].allFetchedJobs # << >>
        /\ (sessions[s].pc = "done" /\ sessions[s].allFetchedJobs = << >>) =>
               /\ sessions[s].emitted = << >>
               /\ sessions[s].i = 0
               /\ s = latest =>
                      /\ scrapingStatus = TerminalStatus
                      /\ jobs = << >>
                      /\ ~isLoading

C7_Witness ==
    /\ latest # 0
    /\ sessions[latest].pc = "done"
    /\ sessions[latest].allFetchedJobs = << >>
    /\ scrapingStatus = TerminalStatus

\* C8: the current page lies in [1, max(1, totalPages)] of the active
\* collection.
C8_PageInRange == currentPage >= 1 /\ currentPage <= Max(1, TotalPages)

\* C9: every step that changes the active view or starts a search leaves the
\* current page at 1.
C9_CollectionChangeResetsPage ==
    [][(\/ activeView' # activeView
        \/ \E s \in Slots : sessions[s].pc # "fetching" /\ sessions'[s].pc = "fetching")
            => currentPage' = 1]_vars

\* C10: no two saved jobs share an identifier, and the job parsed by the add-job
\* flow has an identifier that no job of either collection has.
C10_SavedIdsUnique ==
    /\ \A a, b \in 1..Len(savedJobs) : savedJobs[a] = savedJobs[b] => a = b
    /\ parsedJob # NoJob => parsedJob \notin (Ids(jobs) \cup Ids(savedJobs))

\* a parsed job waits in the dialog while both collections hold jobs
C10_Witness ==
    /\ parsedJob # NoJob
    /\ Len(jobs) > 0
    /\ Len(savedJobs) > 1

\* the identifiers a job can have in this model
AnyJobs ==
    (1..MaxLen) \cup (1..MaxStored) \cup { RandomUUID(n) : n \in 1..MaxParses }

\* C11: saving a job whose identifier is absent from the saved collection
\* appends it (so the identifier is then saved); saving one whose identifier is
\* present leaves the collection as it is; saving twice equals saving once.
C11_SaveIdempotent ==
    \A job \in AnyJobs :
        LET once == HandleSaveJob(savedJobs, job)
            twice == HandleSaveJob(once, job)
        IN  /\ job \notin Ids(savedJobs) =>
                   /\ once = savedJobs \o << job >>
                   /\ job \in Ids(once)
            /\ job \in Ids(savedJobs) => once = savedJobs
            /\ twice = once

\* the job added by text has been appended to the stored list
C11_Witness ==
    /\ Len(savedJobs) > MaxStored
    /\ savedJobs[Len(savedJobs)] = RandomUUID(1)
    /\ IsJobSaved(RandomUUID(1))

\* C12: unsaving an identifier that is absent leaves the saved collection as
\* it is; unsaving one that is present removes that job and keeps the others in
\* their order.
C12_UnsaveRemovesOne ==
    \A id \in AnyJobs :
        LET after == HandleUnsaveJob(savedJobs, id)
        IN  /\ id \notin Ids(savedJobs) => after = savedJobs
            /\ id \in Ids(savedJobs) =>
                   \E k \in 1..Len(savedJobs) :
                       /\ savedJobs[k] = id
                       /\ after = SubSeq(savedJobs, 1, k - 1)
                                    \o SubSeq(savedJobs, k + 1, Len(savedJobs))

\* the first job of the stored list has been unsaved, the others are in place
C12_Witness ==
    /\ Len(savedJobs) = MaxStored - 1
    /\ savedJobs[1] = 2
    /\ ~IsJobSaved(1)

\* C13: once the persist effect has run at startup, and as long as the latest
\* write did not fail, the value stored under the key is the serialization of
\* the saved collection in memory: every save and unsave writes the whole list.
C13_StoredMirrorsSaved ==
    (persisted /\ ~writeError) => stored = JSONStringify(savedJobs)

\* a job added by text and then the first stored job unsaved, all of it written
C13_Witness ==
    /\ persisted
    /\ ~writeError
    /\ Len(savedJobs) = MaxStored
    /\ savedJobs[1] = 2
    /\ IsJobSaved(RandomUUID(1))
    /\ stored = JSONStringify(savedJobs)

\* the stored value deserializes into a list of jobs
IsJobList(v) ==
    /\ v.kind = "json"
    /\ \A k \in 1..Len(v.items) : v.items[k] # BadRecord

\* C14: at startup (before any effect has run) the saved collection is the
\* deserialized stored value when that is a job list, and empty when the key is
\* absent, the read fails or the stored string is no job list.
C14_LoadOrEmpty ==
    ~persisted =>
        savedJobs = IF IsJobList(stored) THEN stored.items ELSE << >>

\* C15: a step in which a write fails changes the saved collection in memory
\* as the handler asked (nothing is rolled back) and leaves the stored value;
\* the application keeps running, and the next write that succeeds stores the
\* list as it then is in memory.
C15_WriteFailureKeepsMemory ==
    /\ [][(mounted /\ ~writeError /\ writeError') =>
              /\ savedJobs' # savedJobs
              /\ (\E job \in AnyJobs :
                     \/ savedJobs' = HandleSaveJob(savedJobs, job)
                     \/ savedJobs' = HandleUnsaveJob(savedJobs, job))
              /\ stored' = stored
              /\ mounted']_vars
    /\ [][(mounted /\ writeError /\ savedJobs' # savedJobs) =>
              /\ (\E job \in AnyJobs :
                     \/ savedJobs' = HandleSaveJob(savedJobs, job)
                     \/ savedJobs' = HandleUnsaveJob(savedJobs, job))
              /\ ~writeError' => stored' = JSONStringify(savedJobs')]_vars

\* a save was made in memory while the storage still holds the startup list
C15_Witness ==
    /\ mounted
    /\ writeError
    /\ stored = JSONStringify(Listing(MaxStored))
    /\ Len(savedJobs) = MaxStored + 1

\* C16: a step that changes the state of a search (results, loading, error,
\* reveal status, the calls of fetchJobs) leaves the saved collection and its
\* stored copy alone, and every change of the saved collection is a save or an
\* unsave of one job.
C16_SearchLeavesSaved ==
    [][/\ searchVars' # searchVars =>
              (savedJobs' = savedJobs /\ stored' = stored)
       /\ savedJobs' # savedJobs =>
              \E job \in AnyJobs :
                  \/ savedJobs' = HandleSaveJob(savedJobs, job)
                  \/ savedJobs' = HandleUnsaveJob(savedJobs, job)]_vars

\* a search has run to its end beside a saved list that is stored
C16_Witness ==
    /\ latest # 0
    /\ sessions[latest].pc = "done"
    /\ Len(jobs) = MaxLen
    /\ Len(savedJobs) = MaxStored
    /\ stored = JSONStringify(savedJobs)

\* C17: from the start of a search (form submission or initial load) until its
\* generation call returns, the stored error is cleared, the search results are
\* empty, RevealStatus is {completed: [], current: first source} and loading is
\* on.
C17_SearchStartResets ==
    \A s \in Slots :
        (s = latest /\ sessions[s].pc = "fetching") =>
            /\ error = NULL
            /\ jobs = << >>
            /\ scrapingStatus = [completed |-> << >>, current |-> JOB_SOURCES[1]]
            /\ isLoading

\* a search submitted from the form is waiting for the generation call
C17_Witness ==
    /\ latest # 0
    /\ sessions[latest].pc = "fetching"
    /\ mounted
    /\ activeView = "search"
    /\ scrapingStatus.current = JOB_SOURCES[1]

\* C18: for the displayed collection of length L, totalPages = ceil(L / 9) (0
\* for L = 0); on a page p of [1, totalPages] the visible slice is the elements
\* at the 0-based positions [(p-1)*9, p*9) that exist, in order, at least one
\* and at most 9; on a page outside that range the slice is empty.
C18_PageSlice ==
    LET list == JobsToDisplay
        L == Len(list)
        p == currentPage
        first == (p - 1) * JOBS_PER_PAGE
    IN  /\ TotalPages = CeilOf(L, JOBS_PER_PAGE)
        /\ L = 0 => TotalPages = 0
        /\ (1 <= p /\ p <= TotalPages) =>
               /\ Len(CurrentJobsOnPage) = Min(JOBS_PER_PAGE, L - first)
               /\ Len(CurrentJobsOnPage) >= 1
               /\ \A k \in 1..Len(CurrentJobsOnPage) :
                      CurrentJobsOnPage[k] = list[first + k]
        /\ (p < 1 \/ p > TotalPages) => CurrentJobsOnPage = << >>

\* eleven saved jobs on display, page 2 shows the last two
C18_Witness ==
    /\ activeView = "saved"
    /\ currentPage = 2
    /\ Len(savedJobs) = MaxStored + 1
    /\ TotalPages = 2
    /\ Len(CurrentJobsOnPage) = Len(savedJobs) - JOBS_PER_PAGE

\* C19: when the newest search is done with L <= 9 fetched jobs and the search
\* view is active, the search results are those L jobs, totalPages is 1 (0 for
\* L = 0) and the visible page shows all of them.
C19_SmallSearchFullyVisible ==
    (/\ latest # 0
     /\ sessions[latest].pc = "done"
     /\ Len(sessions[latest].allFetchedJobs) <= JOBS_PER_PAGE
     /\ activeView = "search") =>
        LET L == Len(sessions[latest].allFetchedJobs)
        IN  /\ Len(jobs) = L
            /\ jobs = sessions[latest].allFetchedJobs
            /\ TotalPages = IF L = 0 THEN 0 ELSE 1
            /\ CurrentJobsOnPage = jobs

\* nine fetched jobs all visible after saves, an added job and view changes
C19_Witness ==
    /\ latest # 0
    /\ sessions[latest].pc = "done"
    /\ Len(sessions[latest].allFetchedJobs) = JOBS_PER_PAGE
    /\ activeView = "search"
    /\ Len(CurrentJobsOnPage) = JOBS_PER_PAGE
    /\ Len(savedJobs) = MaxStored + 1

\* C20: a generation response that does not match the Job schema is an Error:
\* no record that is no Job enters the search results, and a call of fetchJobs
\* that received such a record does not go on to reveal it or to end Done.
C20_MalformedResponseFails ==
    /\ BadRecord \notin Ids(jobs)
    /\ \A s \in Slots :
           sessions[s].pc \in { "revealing", "done" } =>
               BadRecord \notin Ids(sessions[s].allFetchedJobs)

\* C21: a step in which a generation call returns starts no other call (no
\* retry) and no step starts more than one; once the newest search has failed
\* loading is off, no call is in flight and, in the search view, the submit
\* control is enabled again.
C21_FailedSearchCanBeResubmitted ==
    /\ []((latest # 0 /\ sessions[latest].pc = "failed") =>
             /\ ~isLoading
             /\ \A s \in Slots : sessions[s].pc # "fetching"
             /\ (mounted /\ activeView = "search") => SubmitEnabled)
    /\ [][/\ \A s \in Slots :
                (sessions[s].pc = "fetching" /\ sessions'[s].pc # "fetching") =>
                    \A t \in Slots : sessions'[t].pc # "fetching"
          /\ \A s, t \in Slots :
                (/\ sessions[s].pc # "fetching" /\ sessions'[s].pc = "fetching"
                 /\ sessions[t].pc # "fetching" /\ sessions'[t].pc = "fetching")
                    => s = t]_vars

\* the search has failed and the form can be submitted again
C21_Witness ==
    /\ latest # 0
    /\ sessions[latest].pc = "failed"
    /\ activeView = "search"
    /\ SubmitEnabled
    /\ error = FetchErrorMessage

\* C24: at most one call of fetchJobs is in flight; while one is in flight it is
\* the newest one and loading is on; and while loading is on the submit control
\* is disabled.
C24_OneSearchInFlight ==
    /\ \A s, t \in Slots : (Active(s) /\ Active(t)) => s = t
    /\ \A s \in Slots : Active(s) => (s = latest /\ isLoading)
    /\ isLoading => ~SubmitEnabled
    /\ (mounted /\ NoneActive) => ~isLoading

\* a reveal is under way in the search view, so the form is shown but disabled
C24_Witness ==
    /\ latest # 0
    /\ sessions[latest].pc = "revealing"
    /\ activeView = "search"
    /\ Len(jobs) > 0
    /\ isLoading
    /\ ~SubmitEnabled

\* C25: while the add-job dialog is closed its state is the reset state: text
\* empty, no parsed job, no error, not loading.
C25_ClosedDialogStaysReset ==
    ~isAddJobModalOpen =>
        /\ jobText = ""
        /\ parsedJob = NoJob
        /\ modalError = NULL
        /\ ~modalLoading

\* C26: while the newest search reveals (or has revealed) a fetched list of
\* length L >= 1, with k the number of completed sources: the search results
\* are the first min(L, k*ceil(L/5)) fetched jobs, completedSources is the first
\* k sources and currentSource is source k+1, or none when k = 5.
C26_RevealPrefix ==
    (latest # 0 /\ sessions[latest].pc \in { "revealing", "done" }
                /\ Len(sessions[latest].allFetchedJobs) >= 1) =>
        LET fetched == sessions[latest].allFetchedJobs
            L == Len(fetched)
            N == Len(JOB_SOURCES)
            k == Len(scrapingStatus.completed)
        IN  /\ k <= N
            /\ k = sessions[latest].i
            /\ jobs = Positions(fetched, 0, Min(L, k * CeilOf(L, N)))
            /\ scrapingStatus.completed = [j \in 1..k |-> JOB_SOURCES[j]]
            /\ scrapingStatus.current = IF k = N THEN NULL ELSE JOB_SOURCES[k + 1]

\* three sources revealed of a list whose length is no multiple of 5
C26_Witness ==
    /\ latest # 0
    /\ sessions[latest].pc = "revealing"
    /\ Len(scrapingStatus.completed) = 3
    /\ scrapingStatus.current = JOB_SOURCES[4]
    /\ Len(sessions[latest].allFetchedJobs) = JOBS_PER_PAGE
    /\ Len(jobs) = 6

\* C22: no resume analysis is requested with a blank text and no file; a file
\* whose media type is neither PDF nor DOCX is neither read, nor kept as the
\* uploaded resume, nor sent; and a request turned down by either validation
\* shows an error.
C22_ResumeValidated ==
    /\ detail.isAnalyzing => detail.analysisPending # NoCall
    /\ detail.analysisPending.kind = "text" =>
           Trim(detail.analysisPending.payload) # ""
    /\ detail.analysisPending.kind = "file" =>
           detail.analysisPending.payload \in AllowedMimeTypes
    /\ detail.reading # NoFile => detail.reading \in AllowedMimeTypes
    /\ detail.uploadedFile # NoFile => detail.uploadedFile \in AllowedMimeTypes
    /\ detail.rejected # "none" => detail.analysisError # NULL

\* C23: a step in which a service call fails changes only the state of the
\* operation that made it: a failed insight leaves the other kinds, its own
\* content and the resume part of the view; a failed analysis leaves the
\* insights; and a failed search, insight, analysis or parse leaves the saved
\* list, its stored copy and the state of the other operations, with the
\* application still mounted.
C23_FailureStaysLocal ==
    [][/\ \A type \in InsightTypes :
             (/\ DetailOpen
              /\ detail.insights[type].error = NULL
              /\ detail'.insights[type].error # NULL) =>
                 /\ \A other \in InsightTypes \ { type } :
                        detail'.insights[other] = detail.insights[other]
                 /\ detail'.insights[type].content = detail.insights[type].content
                 /\ ~detail'.insights[type].isLoading
                 /\ detail' = [detail EXCEPT !.insights = detail'.insights]
                 /\ savedJobs' = savedJobs /\ stored' = stored
                 /\ searchVars' = searchVars /\ modalVars' = modalVars
                 /\ mounted'
       /\ (/\ DetailOpen
           /\ detail.isAnalyzing /\ ~detail'.isAnalyzing
           /\ detail'.analysisError = AnalyzeErrorMessage) =>
              /\ detail'.insights = detail.insights
              /\ detail'.job = detail.job
              /\ savedJobs' = savedJobs /\ stored' = stored
              /\ searchVars' = searchVars /\ modalVars' = modalVars
              /\ mounted'
       /\ (error = NULL /\ error' # NULL) =>
              /\ savedJobs' = savedJobs /\ stored' = stored
              /\ detail' = detail /\ modalVars' = modalVars
              /\ mounted'
       /\ (/\ modalError' # modalError
           /\ modalError' \in { ParseJsonErrorMessage, ParseErrorMessage }) =>
              /\ savedJobs' = savedJobs /\ stored' = stored
              /\ detail' = detail /\ searchVars' = searchVars
              /\ mounted']_vars

\* beside a failed search, one insight kind shows an error and another one
\* its content
C23_Witness ==
    /\ DetailOpen
    /\ error = FetchErrorMessage
    /\ detail.insights["summary"].error = InsightErrorMessage
    /\ detail.insights["skills"].content # NULL
    /\ detail.insights["skills"].error = NULL
    /\ Len(savedJobs) = MaxStored

\* C27: for each insight kind, content and error are never both present.
C27_ContentOrError ==
    \A type \in InsightTypes :
        ~(/\ detail.insights[type].content # NULL
          /\ detail.insights[type].error # NULL)

====
